---- MODULE Spec2Model ----
(***************************************************************************)
(* Document/view state machine of BanyanGIS v1.3 (BanyanGIS_v1.3.py).      *)
(*                                                                         *)
(* State: the window's held GeoDataFrame (MainWindow.gdf), the enabled     *)
(* flag of the five Operations menu actions, the matplotlib figure (its    *)
(* axes limits, the text labels on the axes and whether the visibility     *)
(* callback is connected), the welcome label, and a record of the last     *)
(* handler that ran (its input, outcome and the calls it made in order).   *)
(*                                                                         *)
(* The geospatial and plotting libraries are collaborators.  A dataset is  *)
(* a CRS and a sequence of point features on an integer grid; a feature    *)
(* may have no geometry (geometry None).                                   *)
(***************************************************************************)
EXTENDS Integers, Sequences, FiniteSets

VARIABLES gdf, enabled, view, labels, connected, welcome, last

vars == <<gdf, enabled, view, labels, connected, welcome, last>>

(***************************************************************************)
(* Bounds of the model.                                                    *)
(***************************************************************************)
\* axis limits a pan/zoom can set are drawn from 0..MaxView
MaxView == 2

(***************************************************************************)
(* Python's None and optional values: None is the empty tuple, a present   *)
(* value v is the one-element tuple <<v>>.                                 *)
(***************************************************************************)
None == <<>>
Some(v) == <<v>>

Min(S) == CHOOSE m \in S : \A n \in S : m <= n
Max(S) == CHOOSE m \in S : \A n \in S : m >= n

\* str.endswith(suffix) on a string given as a tuple of characters
EndsWith(s, suf) ==
    /\ Len(s) >= Len(suf)
    /\ SubSeq(s, Len(s) - Len(suf) + 1, Len(s)) = suf

\* str.endswith(tuple of suffixes)
EndsWithAny(s, sufs) == \E suf \in sufs : EndsWith(s, suf)

(***************************************************************************)
(* Datasets the file reader can deliver.                                   *)
(***************************************************************************)
Pt(x, y, name) == [x |-> x, y |-> y, name |-> name, geom |-> TRUE]
NoGeom(name) == [x |-> 0, y |-> 0, name |-> name, geom |-> FALSE]

\* three features A, B, C with CRS EPSG:1
FileABC == [crs |-> Some(1),
            feats |-> <<Pt(0, 0, "A"), Pt(1, 1, "B"), Pt(2, 1, "C")>>]
\* no CRS; the second of three features has no geometry
FileHole == [crs |-> None,
             feats |-> <<Pt(1, 0, "A"), NoGeom("B"), Pt(1, 2, "C")>>]
\* a layer without features
FileEmpty == [crs |-> Some(10), feats |-> <<>>]

FileDatasets == {FileABC, FileHole, FileEmpty}

\* outcomes of gpd.read_file(path)
ReadOutcomes ==
    {[kind |-> "ok", data |-> Some(d)] : d \in FileDatasets}
    \cup {[kind |-> "IOError", data |-> None],
          [kind |-> "Exception", data |-> None]}

\* characters of the paths the file choosers can return
ExtShp == <<".", "s", "h", "p">>
ExtGeojson == <<".", "g", "e", "o", "j", "s", "o", "n">>
ExtTif == <<".", "t", "i", "f">>
ExtTiff == <<".", "t", "i", "f", "f">>
ExtTxt == <<".", "t", "x", "t">>
ExtUpperShp == <<".", "S", "H", "P">>

\* "" is what a cancelled file chooser returns
OpenPaths == {<<>>, <<"a">> \o ExtShp}

ClipPaths ==
    {<<>>, <<"a">> \o ExtShp, <<"a">> \o ExtGeojson, <<"a">> \o ExtTif,
     <<"a">> \o ExtTiff, <<"a">> \o ExtTxt, <<"a">> \o ExtUpperShp,
     <<"s", "h", "p">>}

(***************************************************************************)
(* Text of the EPSG prompt.  "sup2" stands for the one character U+00B2    *)
(* (superscript two), for which str.isdigit() is True and int() raises.    *)
(***************************************************************************)
AsciiDigits == {"0", "1"}
\* texts typed into the prompt: "", "1", "10", "01", "11", "a", "1a", "-1",
\* superscript two, and "1" followed by superscript two
Texts ==
    {<<>>, <<"1">>, <<"1", "0">>, <<"0", "1">>, <<"1", "1">>, <<"a">>,
     <<"1", "a">>, <<"-", "1">>, <<"sup2">>, <<"1", "sup2">>}

DigitValue(c) == CASE c = "0" -> 0 [] c = "1" -> 1 [] c = "sup2" -> 2

\* str.isdigit(): non-empty and every character is a digit character
isdigit(s) ==
    /\ Len(s) > 0
    /\ \A i \in 1..Len(s) : s[i] \in AsciiDigits \cup {"sup2"}

RECURSIVE DecimalValue(_)
DecimalValue(s) ==
    IF Len(s) = 0 THEN 0
    ELSE 10 * DecimalValue(SubSeq(s, 1, Len(s) - 1)) + DigitValue(s[Len(s)])

\* int() that takes every digit character for its digit value
int_lenient(s) ==
    IF isdigit(s)
    THEN Some(DecimalValue(s))
    ELSE None

\* int(s): the number, or None where int() raises ValueError
int(s) ==
    IF Len(s) > 0 /\ \A i \in 1..Len(s) : s[i] \in AsciiDigits
    THEN Some(DecimalValue(s))
    ELSE None

(***************************************************************************)
(* The reprojector GeoDataFrame.to_crs(epsg=code).                         *)
(***************************************************************************)
\* EPSG codes the projection database knows
KnownEPSG == {1, 10}

\* coordinates of EPSG:1 mapped to EPSG:10 and back
Transform(src, dst, f) ==
    IF ~f.geom \/ src = dst THEN f
    ELSE IF src = 1
         THEN [f EXCEPT !.x = 2 * f.x + 1, !.y = 2 * f.y + 1]
         ELSE [f EXCEPT !.x = (f.x - 1) \div 2, !.y = (f.y - 1) \div 2]

\* the reprojected dataset, or None where to_crs raises (a dataset without
\* CRS, an unknown code)
to_crs(d, code) ==
    IF d.crs = None \/ code \notin KnownEPSG THEN None
    ELSE Some([crs |-> Some(code),
               feats |-> [i \in 1..Len(d.feats) |->
                            Transform(d.crs[1], code, d.feats[i])]])

(***************************************************************************)
(* The clip strategies.  A clip source is a set of boxes: the geometries   *)
(* of a vector file, or the single bounding box of a raster.               *)
(***************************************************************************)
Box(l, r, b, t) == [left |-> l, right |-> r, bottom |-> b, top |-> t]

InBox(f, bx) ==
    /\ f.geom
    /\ bx.left <= f.x /\ f.x <= bx.right
    /\ bx.bottom <= f.y /\ f.y <= bx.top

RECURSIVE SelectSeq2(_, _)
\* the features of s, in order, that lie in one of the boxes
SelectSeq2(s, boxes) ==
    IF Len(s) = 0 THEN <<>>
    ELSE LET rest == SelectSeq2(Tail(s), boxes)
         IN IF \E bx \in boxes : InBox(Head(s), bx)
            THEN <<Head(s)>> \o rest
            ELSE rest

\* GeoDataFrame.clip(clip_gdf)
clip(d, boxes) == [d EXCEPT !.feats = SelectSeq2(d.feats, boxes)]

\* GeoDataFrame.cx[left:right, bottom:top]
cx(d, bbox) == [d EXCEPT !.feats = SelectSeq2(d.feats, {bbox})]

ClipBoxes == {Box(0, 1, 0, 1), Box(1, 5, 1, 5)}

\* what the clip collaborators do with a clip source: deliver its boxes (a
\* raster its one bounding box), fail to read it, or read it and fail to clip
ClipSources ==
    {[kind |-> "ok", boxes |-> {b}] : b \in ClipBoxes}
    \cup {[kind |-> "ok", boxes |-> {}],
          [kind |-> "read_fails", boxes |-> {}],
          [kind |-> "clip_fails", boxes |-> ClipBoxes]}

(***************************************************************************)
(* The figure.                                                             *)
(***************************************************************************)
Rect(x0, x1, y0, y1) == [xmin |-> x0, xmax |-> x1, ymin |-> y0, ymax |-> y1]

\* limits of a fresh subplot
DefaultView == Rect(0, 1, 0, 1)

WithGeom(d) == {i \in 1..Len(d.feats) : d.feats[i].geom}

\* GeoDataFrame.total_bounds over the features that have a geometry
total_bounds(d) ==
    Rect(Min({d.feats[i].x : i \in WithGeom(d)}),
         Max({d.feats[i].x : i \in WithGeom(d)}),
         Min({d.feats[i].y : i \in WithGeom(d)}),
         Max({d.feats[i].y : i \in WithGeom(d)}))

\* Axes.set_xlim / set_ylim widen identical limits
Widen(r) ==
    [r EXCEPT !.xmin = IF r.xmin = r.xmax THEN r.xmin - 1 ELSE r.xmin,
              !.xmax = IF r.xmin = r.xmax THEN r.xmax + 1 ELSE r.xmax,
              !.ymin = IF r.ymin = r.ymax THEN r.ymin - 1 ELSE r.ymin,
              !.ymax = IF r.ymin = r.ymax THEN r.ymax + 1 ELSE r.ymax]

\* limits after gdf.plot(ax=ax): the data limits with the autoscale margin
\* (one grid unit here) on every side
AutoscaleView(d) ==
    IF WithGeom(d) = {} THEN DefaultView
    ELSE LET b == total_bounds(d)
         IN Rect(b.xmin - 1, b.xmax + 1, b.ymin - 1, b.ymax + 1)

(***************************************************************************)
(* The window state a handler works on, with the calls it has made so far  *)
(* and its outcome.                                                        *)
(***************************************************************************)
Gated ==
    {"attr_table_action", "projection_action", "switch_proj_action",
     "clip_action", "label_action"}

Cur ==
    [gdf |-> gdf, enabled |-> enabled, view |-> view, labels |-> labels,
     connected |-> connected, welcome |-> welcome, calls |-> <<>>,
     outcome |-> "ok"]

Called(st, names) == [st EXCEPT !.calls = @ \o names]

Welcome == [kind |-> "welcome", path |-> <<>>, code |-> 0]
Opened(path) == [kind |-> "opened", path |-> path, code |-> 0]
Switched(code) == [kind |-> "switched", path |-> <<>>, code |-> code]

\* MainWindow.update_operations_menu_state: the five actions get
\* has_file_opened
update_operations_menu_state_stale(st) ==
    Called([st EXCEPT !.enabled =
                [a \in Gated |-> IF a = "label_action" THEN @[a]
                                 ELSE st.gdf # None]],
           <<"update_operations_menu_state">>)

update_operations_menu_state(st) ==
    Called([st EXCEPT !.enabled = [a \in Gated |-> st.gdf # None]],
           <<"update_operations_menu_state">>)

\* MainWindow.clear_canvas
clear_canvas(st) ==
    update_operations_menu_state(
        Called([st EXCEPT !.gdf = None, !.view = None, !.labels = <<>>,
                          !.connected = FALSE],
               <<"gdf=None", "figure.clear", "canvas.draw">>))

\* Operations.display_gis_data, with the figure left as it was
display_gis_data_keep(st) ==
    IF st.gdf = None
    THEN Called(st, <<"display_gis_data", "QMessageBox.warning">>)
    ELSE IF WithGeom(st.gdf[1]) = {}
         THEN Called([st EXCEPT !.view = Some(DefaultView)],
                     <<"display_gis_data", "plot", "QMessageBox.critical">>)
         ELSE Called([st EXCEPT !.view = Some(Widen(total_bounds(st.gdf[1])))],
                     <<"display_gis_data", "plot", "canvas.draw">>)

\* Operations.display_gis_data: a new figure with the dataset plotted, the
\* limits set to its total bounds; set_xlim raises on the NaN bounds of a
\* dataset without geometries
display_gis_data(st) ==
    IF st.gdf = None
    THEN Called(st, <<"display_gis_data", "QMessageBox.warning">>)
    ELSE IF WithGeom(st.gdf[1]) = {}
         THEN Called([st EXCEPT !.view = Some(DefaultView), !.labels = <<>>,
                                !.connected = FALSE],
                     <<"display_gis_data", "figure.clear", "plot",
                       "QMessageBox.critical">>)
         ELSE Called([st EXCEPT !.view = Some(Widen(total_bounds(st.gdf[1]))),
                                !.labels = <<>>, !.connected = FALSE],
                     <<"display_gis_data", "figure.clear", "plot",
                       "canvas.draw">>)

\* ImportFile.import_shapefile: (gdf, file_path), or (None, None) when the
\* chooser is cancelled or the reader raises
import_shapefile(path, res) ==
    IF path = <<>>
    THEN [gdf |-> None, path |-> <<>>, calls |-> <<>>, outcome |-> "cancelled"]
    ELSE IF res.kind = "ok"
         THEN [gdf |-> res.data, path |-> path, calls |-> <<"read_file">>,
               outcome |-> "ok"]
         ELSE [gdf |-> None, path |-> <<>>,
               calls |-> <<"read_file", "QMessageBox.critical">>,
               outcome |-> res.kind]

\* the handler of a command has run: the window takes the state it left;
\* last records the command, the user's input (arg, ok), what the
\* collaborator did (fault), and the handler's outcome and calls
Commit(cmd, arg, ok, fault, st) ==
    /\ gdf' = st.gdf
    /\ enabled' = st.enabled
    /\ view' = st.view
    /\ labels' = st.labels
    /\ connected' = st.connected
    /\ welcome' = st.welcome
    /\ last' = [cmd |-> cmd, arg |-> arg, ok |-> ok, fault |-> fault,
                outcome |-> st.outcome, calls |-> st.calls]

\* what the file reader did during an Open
OpenFault(path, res) ==
    IF path = <<>> \/ res.kind = "ok" THEN "none" ELSE res.kind

\* Operations.open_file
open_file(path, res) ==
    LET imp == import_shapefile(path, res)
        st == [Called(Cur, imp.calls) EXCEPT !.outcome = imp.outcome]
    IN Commit("open_file", path, path # <<>>, OpenFault(path, res),
              update_operations_menu_state(
                  IF imp.gdf # None
                  THEN display_gis_data(
                           Called([st EXCEPT !.gdf = imp.gdf,
                                             !.welcome = Opened(imp.path)],
                                  <<"gdf=">>))
                  ELSE clear_canvas(st)))

\* MainWindow.__init__ from the empty canvas on: clear_canvas, then the menu
\* update
Startup ==
    update_operations_menu_state(
        clear_canvas([gdf |-> None, enabled |-> [a \in Gated |-> TRUE],
                      view |-> None, labels |-> <<>>, connected |-> FALSE,
                      welcome |-> Welcome, calls |-> <<>>, outcome |-> "ok"]))

Init ==
    /\ gdf = Startup.gdf
    /\ enabled = Startup.enabled
    /\ view = Startup.view
    /\ labels = Startup.labels
    /\ connected = Startup.connected
    /\ welcome = Startup.welcome
    /\ last = [cmd |-> "startup", arg |-> <<>>, ok |-> TRUE, fault |-> "none",
               outcome |-> "ok", calls |-> Startup.calls]

(***************************************************************************)
(* Switch projection.                                                      *)
(***************************************************************************)
\* the reprojector raises on this input of an accepted Switch projection
SwitchFault(text, ok) ==
    IF ok /\ isdigit(text) /\ int(text) # None /\ gdf # None
       /\ to_crs(gdf[1], int(text)[1]) = None
    THEN "to_crs" ELSE "none"

\* Operations.switch_projection
switch_projection(text, ok) ==
    Commit("switch_projection", text, ok, SwitchFault(text, ok),
        IF ~ok \/ ~isdigit(text)
        THEN [Called(Cur, <<"QMessageBox.warning">>) EXCEPT
                  !.outcome = "rejected"]
        ELSE IF int(text) = None \/ gdf = None
             THEN \* int() raises ValueError, None.to_crs AttributeError
                  [Called(Cur, <<"QMessageBox.warning">>) EXCEPT
                      !.outcome = "error"]
             ELSE LET code == int(text)[1]
                      new == to_crs(gdf[1], code)
                  IN IF new = None
                     THEN [Called(Cur, <<"to_crs", "QMessageBox.warning">>)
                              EXCEPT !.outcome = "error"]
                     ELSE display_gis_data(
                              Called([Cur EXCEPT !.gdf = new,
                                                 !.welcome = Switched(code)],
                                     <<"to_crs", "gdf=">>)))

(***************************************************************************)
(* Clip.                                                                   *)
(***************************************************************************)
\* the branch of clip_data a path takes
ClipRoute(path) ==
    IF EndsWithAny(path, {ExtShp, ExtGeojson}) THEN "vector"
    ELSE IF EndsWithAny(path, {ExtTif, ExtTiff}) THEN "raster"
    ELSE "none"

\* what the clip collaborators did: reading the source failed ("read"), the
\* clip itself failed ("op"), or neither
ClipFault(path, src) ==
    IF gdf = None \/ path = <<>> \/ ClipRoute(path) = "none" THEN "none"
    ELSE IF src.kind = "read_fails" THEN "read"
    ELSE IF src.kind = "clip_fails" THEN "op"
    ELSE "none"

\* the try block of clip_data with the holder assigned before the clip ran
clip_try_eager(st, path, src) ==
    LET route == ClipRoute(path)
        open == IF route = "vector" THEN "read_file" ELSE "rasterio.open"
        op == IF route = "vector" THEN "clip" ELSE "cx"
        failed(calls) == [Called(st, calls \o <<"QMessageBox.critical">>)
                             EXCEPT !.outcome = "error"]
        done(s) == Called(display_gis_data(s), <<"QMessageBox.information">>)
    IN IF route = "none" THEN done(st)
       ELSE IF src.kind = "read_fails" THEN failed(<<open>>)
       ELSE IF src.kind = "clip_fails"
            THEN [failed(<<open, op>>) EXCEPT
                     !.gdf = Some([st.gdf[1] EXCEPT !.feats = <<>>])]
            ELSE done(Called([st EXCEPT !.gdf =
                                 Some(IF route = "vector"
                                      THEN clip(st.gdf[1], src.boxes)
                                      ELSE cx(st.gdf[1],
                                              CHOOSE b \in src.boxes : TRUE))],
                             <<open, op, "gdf=">>))

\* the try block of clip_data
clip_try(st, path, src) ==
    LET route == ClipRoute(path)
        open == IF route = "vector" THEN "read_file" ELSE "rasterio.open"
        op == IF route = "vector" THEN "clip" ELSE "cx"
        failed(calls) == [Called(st, calls \o <<"QMessageBox.critical">>)
                             EXCEPT !.outcome = "error"]
        done(s) == Called(display_gis_data(s), <<"QMessageBox.information">>)
    IN IF route = "none" THEN done(st)
       ELSE IF src.kind = "read_fails" THEN failed(<<open>>)
       ELSE IF src.kind = "clip_fails" THEN failed(<<open, op>>)
            ELSE done(Called([st EXCEPT !.gdf =
                                 Some(IF route = "vector"
                                      THEN clip(st.gdf[1], src.boxes)
                                      ELSE cx(st.gdf[1],
                                              CHOOSE b \in src.boxes : TRUE))],
                             <<open, op, "gdf=">>))

\* Operations.clip_data
clip_data(path, src) ==
    Commit("clip_data", path, path # <<>>, ClipFault(path, src),
        IF gdf = None
        THEN [Called(Cur, <<"QMessageBox.warning">>) EXCEPT
                 !.outcome = "no_file"]
        ELSE IF path = <<>>
             THEN [Cur EXCEPT !.outcome = "cancelled"]
             ELSE clip_try(Cur, path, src))

(***************************************************************************)
(* Label features and the visibility callback.                             *)
(***************************************************************************)
\* gdf.columns.tolist()
Columns == {"name", "geometry"}

\* str(row[field])
Str(f, field) ==
    IF field = "name" THEN <<f.name>> ELSE <<"POINT", f.x, f.y>>

\* the visibility test with the boundary left out
Visible_strict(x, y, v) ==
    (v.xmin < x /\ x < v.xmax) /\ (v.ymin < y /\ y < v.ymax)

\* (x_min <= centroid.x <= x_max) and (y_min <= centroid.y <= y_max)
Visible(x, y, v) ==
    (v.xmin <= x /\ x <= v.xmax) /\ (v.ymin <= y /\ y <= v.ymax)

\* update_label_visibility: every label's flag from the current limits
update_label_visibility(ls, v) ==
    [i \in 1..Len(ls) |->
        [ls[i] EXCEPT !.visible = Visible(ls[i].x, ls[i].y, v)]]

\* ax.text(centroid.x, centroid.y, str(row[field])) for rows 1..n
TextLabels(d, field, n) ==
    [i \in 1..n |-> [x |-> d.feats[i].x, y |-> d.feats[i].y,
                     text |-> Str(d.feats[i], field), visible |-> TRUE]]

\* the rows iterrows reaches before row["geometry"].centroid raises
RowsLabelled(d) ==
    IF WithGeom(d) = 1..Len(d.feats) THEN Len(d.feats)
    ELSE Min((1..Len(d.feats)) \ WithGeom(d)) - 1

LabelFault(field, ok) ==
    IF gdf # None /\ ok /\ field # ""
       /\ RowsLabelled(gdf[1]) < Len(gdf[1].feats)
    THEN "centroid" ELSE "none"

\* Operations.label_features
label_features(field, ok) ==
    Commit("label_features", <<field>>, ok, LabelFault(field, ok),
        IF gdf = None
        THEN [Called(Cur, <<"QMessageBox.warning">>) EXCEPT
                 !.outcome = "no_file"]
        ELSE IF ~(ok /\ field # "")
             THEN [Cur EXCEPT !.outcome = "cancelled"]
             ELSE LET d == gdf[1]
                      v == AutoscaleView(d)
                      n == RowsLabelled(d)
                  IN IF n < Len(d.feats)
                     THEN [Called(Cur, <<"figure.clear", "plot",
                                         "QMessageBox.critical">>) EXCEPT
                              !.view = Some(v),
                              !.labels = TextLabels(d, field, n),
                              !.connected = FALSE,
                              !.outcome = "error"]
                     ELSE [Called(Cur, <<"figure.clear", "plot",
                                         "update_label_visibility",
                                         "canvas.draw">>) EXCEPT
                              !.view = Some(v),
                              !.labels = update_label_visibility(
                                             TextLabels(d, field, n), v),
                              !.connected = TRUE])

\* the callbacks of a limits change: update_label_visibility where connected
LimitsChanged(cmd, v) ==
    Commit(cmd, <<>>, TRUE, "none",
        IF connected
        THEN Called([Cur EXCEPT !.view = Some(v),
                                !.labels = update_label_visibility(labels, v)],
                    <<"update_label_visibility">>)
        ELSE [Cur EXCEPT !.view = Some(v)])

\* pan/zoom: Axes.set_xlim(lo, hi), then the xlim_changed callbacks
set_xlim(lo, hi) ==
    /\ view # None
    /\ LimitsChanged("set_xlim", [view[1] EXCEPT !.xmin = lo, !.xmax = hi])

\* pan/zoom: Axes.set_ylim(lo, hi), then the ylim_changed callbacks
set_ylim(lo, hi) ==
    /\ view # None
    /\ LimitsChanged("set_ylim", [view[1] EXCEPT !.ymin = lo, !.ymax = hi])

(***************************************************************************)
(* The read-only commands.                                                 *)
(***************************************************************************)
\* Operations.show_projection_info: outcome is the text shown
show_projection_info ==
    Commit("show_projection_info", <<>>, TRUE, "none",
        IF gdf = None
        THEN \* None.crs raises AttributeError
             [Called(Cur, <<"QMessageBox.critical">>) EXCEPT
                 !.outcome = "error"]
        ELSE [Called(Cur, <<"dialog.exec_">>) EXCEPT
                 !.outcome = IF gdf[1].crs = None
                             THEN "Undefined projection"
                             ELSE "crs.to_string"])

\* Operations.show_attribute_table
show_attribute_table ==
    Commit("show_attribute_table", <<>>, TRUE, "none",
        IF gdf = None
        THEN [Called(Cur, <<"QMessageBox.warning">>) EXCEPT
                 !.outcome = "no_file"]
        ELSE Called(Cur, <<"dialog.exec_">>))

(***************************************************************************)
(* The specification: any command, with any input, at any time.            *)
(***************************************************************************)
\* a raster has one bounding box
SourceFits(path, src) ==
    ClipRoute(path) = "raster" => src.kind # "ok" \/ Cardinality(src.boxes) = 1

Limits == {<<lo, hi>> \in (0..MaxView) \X (0..MaxView) : lo < hi}

Next ==
    \/ \E path \in OpenPaths, res \in ReadOutcomes : open_file(path, res)
    \/ \E text \in Texts, ok \in BOOLEAN :
           /\ ~ok => text = <<>>
           /\ switch_projection(text, ok)
    \/ \E path \in ClipPaths, src \in ClipSources :
           /\ SourceFits(path, src)
           /\ clip_data(path, src)
    \/ \E field \in Columns, ok \in BOOLEAN : label_features(field, ok)
    \/ \E l \in Limits : set_xlim(l[1], l[2])
    \/ \E l \in Limits : set_ylim(l[1], l[2])
    \/ show_projection_info
    \/ show_attribute_table

Spec == Init /\ [][Next]_vars

(***************************************************************************)
(* Properties.                                                             *)
(***************************************************************************)
CallsOf(l) == {l.calls[i] : i \in 1..Len(l.calls)}

\* a handler assigned the holder at position i of its calls
Mutates(l, i) == l.calls[i] \in {"gdf=", "gdf=None"}

\* a call among names follows position i
FollowedBy(l, i, names) ==
    \E j \in (i + 1)..Len(l.calls) : l.calls[j] \in names

RenderCalls == {"display_gis_data", "canvas.draw"}
EnablementCalls == {"update_operations_menu_state"}

\* the text is a numeric EPSG code: one or more decimal digits
IsNumericCode(text) ==
    Len(text) > 0 /\ \A i \in 1..Len(text) : text[i] \in {"0", "1"}

\* C1: after every completed command the five gated commands are all
\* enabled if a dataset is held and all disabled if the holder is absent.
C1_EnablementFollowsHolder ==
    \A a \in Gated : enabled[a] <=> (gdf # None)

C1_Witness ==
    /\ last.cmd = "clip_data" /\ last.outcome = "ok"
    /\ gdf # None
    /\ \A a \in Gated : enabled[a]

\* C2: an Open whose file reader fails (I/O error or any other exception)
\* leaves the held dataset as it was before the command.
C2_FailedOpenKeepsDataset ==
    [][last'.cmd = "open_file" /\ last'.fault \in {"IOError", "Exception"}
          => gdf' = gdf]_vars

\* C3: Switch projection with a text that is not a numeric EPSG code never
\* invokes the reprojector and leaves the held dataset unchanged; with a
\* numeric code whose reprojection fails the held dataset is unchanged.
C3_SwitchProjectionFailureKeepsDataset ==
    [][last'.cmd = "switch_projection" =>
          /\ ~IsNumericCode(last'.arg) =>
                 "to_crs" \notin CallsOf(last') /\ gdf' = gdf
          /\ IsNumericCode(last'.arg) /\ last'.fault = "to_crs" =>
                 gdf' = gdf]_vars

C3_Witness ==
    /\ last.cmd = "switch_projection"
    /\ IsNumericCode(last.arg) /\ last.fault = "to_crs"
    /\ gdf # None /\ "to_crs" \in CallsOf(last)

\* C4: Clip with a dataset present: a path ending in .shp or .geojson takes
\* the vector clip, one ending in .tif or .tiff the raster-bounds clip, and
\* a path with any other extension performs no clip and leaves dataset,
\* labels and view as they were.
C4_ClipDispatch ==
    [][last'.cmd = "clip_data" /\ gdf # None /\ last'.arg # <<>> =>
          LET path == last'.arg
              made == CallsOf(last')
          IN /\ EndsWithAny(path, {ExtShp, ExtGeojson}) =>
                    "read_file" \in made /\ made \cap {"rasterio.open", "cx"} = {}
             /\ EndsWithAny(path, {ExtTif, ExtTiff}) =>
                    "rasterio.open" \in made /\ made \cap {"read_file", "clip"} = {}
             /\ ~EndsWithAny(path, {ExtShp, ExtGeojson, ExtTif, ExtTiff}) =>
                    /\ made \cap {"clip", "cx"} = {}
                    /\ gdf' = gdf /\ labels' = labels /\ view' = view]_vars

\* C5: while the labels of a successful Label features are on the axes,
\* after every handled limits change each label is visible iff its centroid
\* lies in the closed view rectangle.
C5_LabelVisibleIffInView ==
    connected =>
        \A i \in 1..Len(labels) :
            labels[i].visible <=>
                /\ view[1].xmin <= labels[i].x /\ labels[i].x <= view[1].xmax
                /\ view[1].ymin <= labels[i].y /\ labels[i].y <= view[1].ymax

C5_Witness ==
    /\ connected /\ last.cmd = "set_ylim"
    /\ \E i \in 1..Len(labels) : ~labels[i].visible
    /\ \E i \in 1..Len(labels) :
           labels[i].visible /\ labels[i].x = view[1].xmax

\* C6: a Clip whose source cannot be read or whose clip fails reports the
\* failure and leaves the held dataset unchanged; the holder changes only
\* in a Clip whose clip completed.
C6_FailedClipKeepsDataset ==
    [][last'.cmd = "clip_data" =>
          /\ last'.fault \in {"read", "op"} =>
                 gdf' = gdf /\ "QMessageBox.critical" \in CallsOf(last')
          /\ gdf' # gdf =>
                 last'.fault = "none" /\ CallsOf(last') \cap {"clip", "cx"} # {}]_vars

C6_Witness ==
    /\ last.cmd = "clip_data" /\ last.fault = "op"
    /\ gdf # None /\ Len(gdf[1].feats) > 0
    /\ "QMessageBox.critical" \in CallsOf(last)

\* C7: a handler whose prompt is cancelled (file chooser of Open and Clip,
\* EPSG prompt, field chooser) changes neither the held dataset, nor the
\* labels, nor the command enablement.
C7_CancelChangesNothing ==
    [][(\/ last'.cmd \in {"open_file", "clip_data"} /\ last'.arg = <<>>
        \/ last'.cmd \in {"switch_projection", "label_features"} /\ ~last'.ok)
          => gdf' = gdf /\ labels' = labels /\ enabled' = enabled]_vars

\* C8: Label features is all-or-nothing: it creates one label per feature
\* (text the field's string value, position the centroid), or it reports
\* the failure, applies no label and leaves the earlier labels untouched.
C8_LabelAllOrNothing ==
    [][last'.cmd = "label_features" /\ gdf # None /\ last'.ok =>
          \/ /\ Len(labels') = Len(gdf[1].feats)
             /\ \A i \in 1..Len(labels') :
                    /\ gdf[1].feats[i].geom
                    /\ labels'[i].x = gdf[1].feats[i].x
                    /\ labels'[i].y = gdf[1].feats[i].y
                    /\ labels'[i].text = Str(gdf[1].feats[i], last'.arg[1])
          \/ /\ "QMessageBox.critical" \in CallsOf(last')
             /\ labels' = labels]_vars

\* C9: every assignment of the holder (set or clear) is followed, in the
\* same handler, by a re-evaluation of the enablement and by a re-render
\* request (display_gis_data or canvas.draw).
C9_MutationNotifiesBoth ==
    \A i \in 1..Len(last.calls) :
        Mutates(last, i) =>
            /\ FollowedBy(last, i, EnablementCalls)
            /\ FollowedBy(last, i, RenderCalls)

\* C10: the labels on the axes were all computed from the dataset held
\* now: they are the labels of its first rows for one of its fields.
C10_LabelsFromHeldDataset ==
    labels # <<>> =>
        /\ gdf # None
        /\ Len(labels) <= Len(gdf[1].feats)
        /\ \E field \in Columns :
               \A i \in 1..Len(labels) :
                   /\ gdf[1].feats[i].geom
                   /\ labels[i].x = gdf[1].feats[i].x
                   /\ labels[i].y = gdf[1].feats[i].y
                   /\ labels[i].text = Str(gdf[1].feats[i], field)

C10_Witness ==
    /\ labels # <<>> /\ last.cmd = "label_features"
    /\ welcome.kind = "switched"
    /\ Len(labels) = Len(gdf[1].feats)

====
